---- MODULE Spec2Model ----
(***************************************************************************)
(* Model of src/thegraph/src/data/store.rs: the typed attribute Value, its *)
(* conversions from and to the untyped graphql query value, the BigInt     *)
(* wrapper, and the Entity map with its merge operation.                   *)
(*                                                                         *)
(* Text is a sequence of one-character strings, so that prefixes, hex      *)
(* digits and decimal digits are things the conversions really compute.    *)
(* A byte is a number 0..255.  A 64-bit integer literal is four 16-bit     *)
(* limbs, most significant first, in two's complement.                     *)
(***************************************************************************)
EXTENDS Integers, Sequences, FiniteSets, TLC

VARIABLES
    pc,        \* position of the modelled caller
    ty,        \* schema::Type handed to from_query_value
    orig,      \* the datum the run started from (a Value or a query::Value)
    untyped,   \* the query::Value currently held
    typed,     \* the outcome of from_query_value currently held
    self,      \* the receiver Entity (HashMap contents)
    self0,     \* the receiver as it was before the last merge
    update,    \* the update Entity of the last merge
    object,    \* result of Into<query::Value> for Entity
    base,      \* the Entity a chain of merges started from
    history    \* the updates merged so far, in order

vars == <<pc, ty, orig, untyped, typed, self, self0, update, object, base, history>>

convVars == <<ty, orig, untyped, typed>>
entityVars == <<self, self0, update, object>>
chainVars == <<base, history>>

----------------------------------------------------------------------------
(* Bounds of the model *)

MaxPrefix == 2      \* "0x" repeated at most this often in front of a literal
MaxBody == 4        \* characters after the prefixes of a Bytes literal
MaxNumLen == 3      \* characters of a BigInt literal
MaxDigits == 3      \* decimal digits of a BigInt value
MaxBytes == 2       \* bytes of a Value::Bytes
MaxListLen == 2     \* elements of a list literal
MaxMerges == 2      \* merges in a chain

----------------------------------------------------------------------------
(* Text helpers *)

RECURSIVE Concat(_)
Concat(ss) == IF ss = <<>> THEN <<>> ELSE Head(ss) \o Concat(Tail(ss))

StartsWith(s, pat) ==
    /\ Len(s) >= Len(pat)
    /\ SubSeq(s, 1, Len(pat)) = pat

\* str::trim_left_matches(pat): removes every leading repetition of pat.
RECURSIVE TrimLeftMatches(_, _)
TrimLeftMatches(s, pat) ==
    IF pat # <<>> /\ StartsWith(s, pat)
    THEN TrimLeftMatches(SubSeq(s, Len(pat) + 1, Len(s)), pat)
    ELSE s

HexLower == <<"0","1","2","3","4","5","6","7","8","9","a","b","c","d","e","f">>
HexUpper == <<"0","1","2","3","4","5","6","7","8","9","A","B","C","D","E","F">>

\* hex: value of one hex digit, -1 when the character is no hex digit.
HexVal(c) ==
    IF \E i \in 1..16 : HexLower[i] = c
    THEN (CHOOSE i \in 1..16 : HexLower[i] = c) - 1
    ELSE IF \E i \in 1..16 : HexUpper[i] = c
    THEN (CHOOSE i \in 1..16 : HexUpper[i] = c) - 1
    ELSE -1

\* hex::decode: Err on odd length or on a character that is no hex digit.
HexDecode(s) ==
    IF Len(s) % 2 # 0 THEN [ok |-> FALSE, err |-> "OddLength"]
    ELSE IF \E i \in 1..Len(s) : HexVal(s[i]) < 0
    THEN [ok |-> FALSE, err |-> "InvalidHexCharacter"]
    ELSE [ok |-> TRUE,
          bytes |-> [i \in 1..(Len(s) \div 2) |->
                        HexVal(s[2 * i - 1]) * 16 + HexVal(s[2 * i])]]

\* Mutant of HexEncode: one digit for a byte below 16 (no zero padding).
HexEncodeNoPad(bytes) ==
    Concat([i \in 1..Len(bytes) |->
              IF bytes[i] < 16 THEN <<HexLower[bytes[i] + 1]>>
              ELSE <<HexLower[(bytes[i] \div 16) + 1], HexLower[(bytes[i] % 16) + 1]>>])

\* hex::encode: two lowercase digits per byte.
HexEncode(bytes) ==
    Concat([i \in 1..Len(bytes) |->
              <<HexLower[(bytes[i] \div 16) + 1], HexLower[(bytes[i] % 16) + 1]>>])

----------------------------------------------------------------------------
(* BigInt: sign and magnitude; the magnitude is the sequence of its decimal *)
(* digits, most significant first, without leading zeros, empty for zero.   *)

DecDigits == <<"0","1","2","3","4","5","6","7","8","9">>

IsDecDigit(c) == \E i \in 1..10 : DecDigits[i] = c
DecVal(c) == (CHOOSE i \in 1..10 : DecDigits[i] = c) - 1

RECURSIVE StripLeadingZeros(_)
StripLeadingZeros(ds) ==
    IF ds # <<>> /\ Head(ds) = 0 THEN StripLeadingZeros(Tail(ds)) ELSE ds

BigIntZero == [sign |-> "NoSign", mag |-> <<>>]

\* BigInt::from_biguint: a zero magnitude has no sign.
BigIntFromParts(sign, ds) ==
    LET m == StripLeadingZeros(ds)
    IN  IF m = <<>> THEN BigIntZero ELSE [sign |-> sign, mag |-> m]

\* Mutant of BigIntToString: the sign is not rendered.
BigIntToStringUnsigned(n) ==
    IF n.sign = "NoSign" THEN <<"0">>
    ELSE [i \in 1..Len(n.mag) |-> DecDigits[n.mag[i] + 1]]

\* impl Display for BigInt (to_string).
BigIntToString(n) ==
    IF n.sign = "NoSign" THEN <<"0">>
    ELSE (IF n.sign = "Minus" THEN <<"-">> ELSE <<>>)
         \o [i \in 1..Len(n.mag) |-> DecDigits[n.mag[i] + 1]]

\* impl FromStr for BigInt: optional '-', then one or more decimal digits.
BigIntFromStr(s) ==
    LET neg == s # <<>> /\ Head(s) = "-"
        ds == IF neg THEN Tail(s) ELSE s
    IN  IF ds = <<>> THEN [ok |-> FALSE, err |-> "Empty"]
        ELSE IF \E i \in 1..Len(ds) : ~IsDecDigit(ds[i])
        THEN [ok |-> FALSE, err |-> "InvalidDigit"]
        ELSE [ok |-> TRUE,
              num |-> BigIntFromParts(IF neg THEN "Minus" ELSE "Plus",
                                      [i \in 1..Len(ds) |-> DecVal(ds[i])])]

----------------------------------------------------------------------------
(* 64-bit literals (query::Number) and the 32-bit Int *)

\* query::Number::from(i32): lossless widening (sign extension).
I64FromI32(i) ==
    LET ext == IF i < 0 THEN 65535 ELSE 0
    IN  <<ext, ext, (i \div 65536) % 65536, i % 65536>>

\* Number::as_i64() as i32: keeps the low 32 bits, read as a signed number.
I64AsI32(l) ==
    IF l[3] >= 32768 THEN (l[3] - 65536) * 65536 + l[4]
    ELSE l[3] * 65536 + l[4]

\* The 64-bit literal lies in the 32-bit signed range.
FitsI32(l) ==
    \/ l[1] = 0 /\ l[2] = 0 /\ l[3] < 32768
    \/ l[1] = 65535 /\ l[2] = 65535 /\ l[3] >= 32768

\* f64 as f32: the float literals of the model are multiples of 1/4 of small
\* magnitude (the number held is four times the literal), which both widths
\* hold exactly.
F64AsF32(f) == f
F32AsF64(f) == f

----------------------------------------------------------------------------
(* Value, query::Value and schema::Type *)

\* Every variant keeps its payload in a field of its own name.
ValueString(s) == [kind |-> "String", str |-> s]
ValueInt(i) == [kind |-> "Int", int |-> i]
ValueFloat(f) == [kind |-> "Float", float |-> f]
ValueBool(b) == [kind |-> "Bool", bool |-> b]
ValueList(vs) == [kind |-> "List", items |-> vs]
ValueNull == [kind |-> "Null"]
ValueBytes(bs) == [kind |-> "Bytes", bytes |-> bs]
ValueBigInt(n) == [kind |-> "BigInt", num |-> n]

QueryString(s) == [shape |-> "String", text |-> s]
QueryInt(l) == [shape |-> "Int", limbs |-> l]
QueryFloat(f) == [shape |-> "Float", f64 |-> f]
QueryBoolean(b) == [shape |-> "Boolean", flag |-> b]
QueryList(qs) == [shape |-> "List", elems |-> qs]
QueryNull == [shape |-> "Null"]
QueryEnum(name) == [shape |-> "Enum", ident |-> name]
QueryObject(fs) == [shape |-> "Object", fields |-> fs]

NamedType(n) == [ctor |-> "NamedType", name |-> n]
ListType(t) == [ctor |-> "ListType", of |-> t]
NonNullType(t) == [ctor |-> "NonNullType", of |-> t]

BYTES_SCALAR == "Bytes"
BIG_INT_SCALAR == "BigInt"

\* What a call of from_query_value ends in: a Value, or a panic.
Ok(v) == [outcome |-> "Ok", value |-> v]
Panic(msg) == [outcome |-> "Panic", why |-> msg]
\* The explicit error result the code never produces.
Err(e) == [outcome |-> "Err", why |-> e]

NoOutcome == [outcome |-> "None"]
NoQuery == [shape |-> "None"]
NoType == [ctor |-> "None"]

----------------------------------------------------------------------------
(* Value::from_query_value and From<Value> for query::Value *)

HexPrefix == <<"0", "x">>

\* The BYTES_SCALAR arm: trim the prefix, decode, expect.
BytesFromText(s) ==
    LET d == HexDecode(TrimLeftMatches(s, HexPrefix))
    IN  IF d.ok THEN Ok(ValueBytes(d.bytes))
        ELSE Panic("Value is not a hex string")

\* The BIG_INT_SCALAR arm: parse, expect.
BigIntFromText(s) ==
    LET r == BigIntFromStr(s)
    IN  IF r.ok THEN Ok(ValueBigInt(r.num))
        ELSE Panic("Value is not a number")

\* The Int arm: as_i64 is always Some for a parsed literal; `as i32` wraps.
IntFromNumber(l) == Ok(ValueInt(I64AsI32(l)))

RECURSIVE FromQueryValue(_, _)
FromQueryValue(value, t) ==
    CASE value.shape = "String" /\ t.ctor = "NamedType" ->
            IF t.name = BYTES_SCALAR THEN BytesFromText(value.text)
            ELSE IF t.name = BIG_INT_SCALAR THEN BigIntFromText(value.text)
            ELSE Ok(ValueString(value.text))
      [] value.shape = "Int" -> IntFromNumber(value.limbs)
      [] value.shape = "Float" -> Ok(ValueFloat(F64AsF32(value.f64)))
      [] value.shape = "Boolean" -> Ok(ValueBool(value.flag))
      [] value.shape = "List" /\ t.ctor = "ListType" ->
            \* map + collect: the first element that panics ends the call
            LET outs == [i \in 1..Len(value.elems) |->
                            FromQueryValue(value.elems[i], t.of)]
                bad == {i \in 1..Len(value.elems) : outs[i].outcome # "Ok"}
            IN  IF bad # {}
                THEN outs[CHOOSE i \in bad : \A j \in bad : i <= j]
                ELSE Ok(ValueList([i \in 1..Len(value.elems) |-> outs[i].value]))
      [] value.shape = "Null" -> Ok(ValueNull)
      [] OTHER -> Panic("not yet implemented")

\* Mutant of BytesToText: uppercase digits.
BytesToTextUpper(bytes) ==
    HexPrefix \o Concat([i \in 1..Len(bytes) |->
        <<HexUpper[(bytes[i] \div 16) + 1], HexUpper[(bytes[i] % 16) + 1]>>])

\* The Bytes arm of the rendering: "0x" and the lowercase hex digits.
BytesToText(bytes) == HexPrefix \o HexEncode(bytes)

RECURSIVE ToQueryValue(_)
ToQueryValue(value) ==
    CASE value.kind = "String" -> QueryString(value.str)
      [] value.kind = "Int" -> QueryInt(I64FromI32(value.int))
      [] value.kind = "Float" -> QueryFloat(F32AsF64(value.float))
      [] value.kind = "Bool" -> QueryBoolean(value.bool)
      [] value.kind = "Null" -> QueryNull
      [] value.kind = "List" ->
            QueryList([i \in 1..Len(value.items) |-> ToQueryValue(value.items[i])])
      [] value.kind = "Bytes" -> QueryString(BytesToText(value.bytes))
      [] value.kind = "BigInt" -> QueryString(BigIntToString(value.num))

----------------------------------------------------------------------------
(* Inputs of the conversions *)

RECURSIVE SeqsUpTo(_, _)
SeqsUpTo(S, n) ==
    IF n = 0 THEN {<<>>}
    ELSE LET shorter == SeqsUpTo(S, n - 1)
         IN  shorter \cup {Append(s, x) : s \in shorter, x \in S}

RECURSIVE Repeat(_, _)
Repeat(s, n) == IF n = 0 THEN <<>> ELSE s \o Repeat(s, n - 1)

HexAlphabet == {"0", "x", "1", "a", "F", "g"}
NumAlphabet == {"0", "1", "9", "-", "a"}
DigitSamples == {0, 1, 9}
ByteSamples == {0, 15, 16, 143, 255}
LimbSamples == {0, 1, 32767, 32768, 65535}

\* The literals of the tests value_bytes and value_bigint.
TestBytesText ==
    <<"0","x","8","f","4","9","4","c","6","6","a","f","c","1","d","3","f","8",
      "a","c","1","b","4","5","d","f","2","1","f","0","2","a","4","6">>
TestBytes == <<143, 73, 76, 102, 175, 193, 211, 248, 172, 27, 69, 223, 33, 240, 42, 70>>
TestBigNumText ==
    <<"3","4","0","2","8","2","3","6","6","9","2","0","9","3","8","4","6","3","4","6",
      "3","3","7","4","6","0","7","4","3","1","7","6","8","2","1","1","4","5","6">>
TestBigNumDigits == [i \in 1..Len(TestBigNumText) |-> DecVal(TestBigNumText[i])]

RepeatedPrefixText == <<"0", "x", "0", "x", "1", "2">>

BytesTexts ==
    {Repeat(HexPrefix, k) \o b : k \in 0..MaxPrefix, b \in SeqsUpTo(HexAlphabet, MaxBody)}
        \cup {TestBytesText, RepeatedPrefixText}
NumTexts == SeqsUpTo(NumAlphabet, MaxNumLen) \cup {TestBigNumText, <<"-">> \o TestBigNumText}

IntLiterals == {<<a, b, c, d>> : a \in {0, 1, 65535}, b \in {0, 1, 65535},
                                 c \in LimbSamples, d \in LimbSamples}

ScalarLiterals ==
    {QueryString(s) : s \in BytesTexts \cup NumTexts}
        \cup {QueryInt(l) : l \in IntLiterals}
        \cup {QueryFloat(f) : f \in {0, 6, -9}}
        \cup {QueryBoolean(b) : b \in BOOLEAN}
        \cup {QueryNull, QueryEnum("RED")}

ElementLiterals ==
    {QueryString(<<"0", "x", "a", "F">>), QueryString(<<"g">>), QueryNull,
     QueryInt(<<0, 1, 0, 0>>), QueryList(<<>>), QueryList(<<QueryString(<<"1", "2">>)>>)}

ListLiterals == {QueryList(qs) : qs \in SeqsUpTo(ElementLiterals, MaxListLen)}

QueryValues == ScalarLiterals \cup ListLiterals

Types ==
    {NamedType(BYTES_SCALAR), NamedType(BIG_INT_SCALAR), NamedType("String"),
     ListType(NamedType(BYTES_SCALAR)), ListType(NamedType("String")),
     ListType(ListType(NamedType("String"))), NonNullType(NamedType("String"))}

BigInts ==
    {BigIntFromParts(sg, ds) : sg \in {"Minus", "Plus"},
                               ds \in SeqsUpTo(DigitSamples, MaxDigits)}
        \cup {[sign |-> sg, mag |-> TestBigNumDigits] : sg \in {"Minus", "Plus"}}

Values ==
    {ValueBytes(bs) : bs \in SeqsUpTo(ByteSamples, MaxBytes) \cup {TestBytes}}
        \cup {ValueBigInt(n) : n \in BigInts}
        \cup {ValueInt(i) : i \in {0, 1, -1, 2147483647, -2147483647 - 1}}
        \cup {ValueString(<<"x">>), ValueString(<<"0", "x", "0", "0">>),
              ValueBool(TRUE), ValueFloat(6), ValueNull,
              ValueList(<<ValueBytes(<<255>>), ValueNull>>)}

----------------------------------------------------------------------------
(* The conversions as a state machine: a caller either holds an untyped    *)
(* literal, converts it and renders the result, or holds a Value, renders  *)
(* it and converts the rendering back.                                     *)

EntityIdle == /\ self = <<>> /\ self0 = <<>> /\ update = <<>> /\ object = NoQuery
ChainIdle == /\ base = <<>> /\ history = <<>>

InitConv ==
    /\ \/ /\ pc = "query"
          /\ orig \in QueryValues
          /\ untyped = orig
          /\ typed = NoOutcome
       \/ /\ pc = "value"
          /\ orig \in Values
          /\ untyped = NoQuery
          /\ typed = Ok(orig)
    /\ ty \in Types
    /\ EntityIdle
    /\ ChainIdle

\* Value::from_query_value(&untyped, &ty)
FromQueryValueStep ==
    /\ pc \in {"query", "untyped"}
    /\ typed' = FromQueryValue(untyped, ty)
    /\ pc' = IF pc = "query" THEN "converted" ELSE "reconverted"
    /\ UNCHANGED <<ty, orig, untyped>>
    /\ UNCHANGED <<entityVars, chainVars>>

\* query::Value::from(value), for the Value the caller holds
IntoQueryValueStep ==
    /\ pc \in {"value", "converted"}
    /\ typed.outcome = "Ok"
    /\ untyped' = ToQueryValue(typed.value)
    /\ pc' = IF pc = "value" THEN "untyped" ELSE "rendered"
    /\ UNCHANGED <<ty, orig, typed>>
    /\ UNCHANGED <<entityVars, chainVars>>

NextConv == FromQueryValueStep \/ IntoQueryValueStep

SpecConv == InitConv /\ [][NextConv]_vars

----------------------------------------------------------------------------
(* Entity: the contents of the HashMap are a function from attribute names *)
(* to Values.  The order in which a HashMap is iterated is unspecified, so *)
(* every iteration takes some enumeration of the keys.                     *)

\* Every sequence that lists the elements of S once each.
RECURSIVE Orders(_)
Orders(S) ==
    IF S = {} THEN {<<>>}
    ELSE UNION {{<<x>> \o o : o \in Orders(S \ {x})} : x \in S}

\* Entity::new
EntityNew == <<>>

\* HashMap::remove through DerefMut
Remove(m, k) == [x \in DOMAIN m \ {k} |-> m[x]]

\* HashMap::insert through DerefMut
Insert(m, k, v) == [x \in DOMAIN m \cup {k} |-> IF x = k THEN v ELSE m[x]]

\* Mutant of MergeEntry: Null is stored like any other value.
MergeEntryKeepNull(m, k, v) == Insert(m, k, v)

\* Mutant of MergeEntry: the receiver wins on a key it already has.
MergeEntryKeepExisting(m, k, v) ==
    IF v.kind = "Null" THEN Remove(m, k)
    ELSE IF k \in DOMAIN m THEN m ELSE Insert(m, k, v)

\* One turn of the loop of Entity::merge: the match on the update's value.
MergeEntry(m, k, v) ==
    IF v.kind = "Null" THEN Remove(m, k) ELSE Insert(m, k, v)

\* Mutant of MergeInOrder: the loop ends after its first turn.
MergeFirstOnly(m, upd, order) ==
    IF order = <<>> THEN m ELSE MergeEntry(m, Head(order), upd[Head(order)])

\* Entity::merge, with the update iterated in the given order.
RECURSIVE MergeInOrder(_, _, _)
MergeInOrder(m, upd, order) ==
    IF order = <<>> THEN m
    ELSE MergeInOrder(MergeEntry(m, Head(order), upd[Head(order)]), upd, Tail(order))

\* The code point of the characters attribute names are made of.
CodePoint(c) ==
    CASE c = "Z" -> 90
      [] c = "a" -> 97
      [] c = "b" -> 98

\* Ord for String: lexicographic on the bytes; a proper prefix comes first.
RECURSIVE StrLess(_, _)
StrLess(x, y) ==
    IF y = <<>> THEN FALSE
    ELSE IF x = <<>> THEN TRUE
    ELSE IF CodePoint(Head(x)) # CodePoint(Head(y))
    THEN CodePoint(Head(x)) < CodePoint(Head(y))
    ELSE StrLess(Tail(x), Tail(y))

\* Mutant of BTreeInsert: the entry is appended (a Vec in place of the map).
VecPush(fs, k, q) == Append(fs, [key |-> k, entry |-> q])

\* BTreeMap::insert: the entries are kept in ascending key order, and an
\* entry whose key is present is replaced.
BTreeInsert(fs, k, q) ==
    LET before == SelectSeq(fs, LAMBDA f : StrLess(f.key, k))
        after == SelectSeq(fs, LAMBDA f : StrLess(k, f.key))
    IN  before \o <<[key |-> k, entry |-> q]>> \o after

\* Into<query::Value> for Entity, with self iterated in the given order.
RECURSIVE FieldsInOrder(_, _, _)
FieldsInOrder(fs, m, order) ==
    IF order = <<>> THEN fs
    ELSE FieldsInOrder(BTreeInsert(fs, Head(order), ToQueryValue(m[Head(order)])),
                       m, Tail(order))

EntityIntoQueryValue(m, order) == QueryObject(FieldsInOrder(<<>>, m, order))

Keys == {<<"Z">>, <<"a">>, <<"a", "b">>}
AttrValues ==
    {ValueInt(1), ValueString(<<"x">>), ValueBool(TRUE), ValueNull,
     ValueList(<<ValueNull>>)}

\* From<HashMap<Attribute, Value>> for Entity: any contents.
EntitiesOver(K, V) == UNION {[D -> V] : D \in SUBSET K}
Entities == EntitiesOver(Keys, AttrValues)

ConvIdle ==
    /\ ty = NoType /\ orig = NoQuery /\ untyped = NoQuery /\ typed = NoOutcome

InitEntity ==
    /\ pc = "entity"
    /\ self \in Entities
    /\ self0 = EntityNew
    /\ update = EntityNew
    /\ object = NoQuery
    /\ ConvIdle
    /\ ChainIdle

\* self.merge(upd)
MergeStep ==
    /\ pc = "entity"
    /\ \E upd \in Entities : \E order \in Orders(DOMAIN upd) :
          /\ self' = MergeInOrder(self, upd, order)
          /\ self0' = self
          /\ update' = upd
    /\ pc' = "merged"
    /\ UNCHANGED object
    /\ UNCHANGED <<convVars, chainVars>>

\* let object: query::Value = self.into()
IntoObjectStep ==
    /\ pc \in {"entity", "merged"}
    /\ \E order \in Orders(DOMAIN self) :
          object' = EntityIntoQueryValue(self, order)
    /\ pc' = "object"
    /\ UNCHANGED <<self, self0, update>>
    /\ UNCHANGED <<convVars, chainVars>>

NextEntity == MergeStep \/ IntoObjectStep

SpecEntity == InitEntity /\ [][NextEntity]_vars

----------------------------------------------------------------------------
(* A chain of merges into one entity *)

ChainKeys == {<<"a">>, <<"b">>}
ChainValues == {ValueInt(1), ValueInt(2), ValueNull, ValueList(<<ValueNull>>)}
ChainEntities == EntitiesOver(ChainKeys, ChainValues)

InitChain ==
    /\ pc = "chain"
    /\ base \in ChainEntities
    /\ self = base
    /\ history = <<>>
    /\ self0 = EntityNew
    /\ update = EntityNew
    /\ object = NoQuery
    /\ ConvIdle

\* self.merge(upd), once more
ChainMergeStep ==
    /\ pc = "chain"
    /\ Len(history) < MaxMerges
    /\ \E upd \in ChainEntities : \E order \in Orders(DOMAIN upd) :
          /\ self' = MergeInOrder(self, upd, order)
          /\ history' = Append(history, upd)
    /\ UNCHANGED <<pc, base, self0, update, object>>
    /\ UNCHANGED convVars

NextChain == ChainMergeStep

SpecChain == InitChain /\ [][NextChain]_vars

----------------------------------------------------------------------------
(* Properties of the conversions *)

\* C2: a Value::Bytes(b), b empty or not, rendered to the untyped value and
\* converted back under the named type "Bytes" is Value::Bytes(b) again.
C2_BytesRoundTrip ==
    (pc = "reconverted" /\ orig.kind = "Bytes" /\ ty = NamedType(BYTES_SCALAR))
        => typed = Ok(orig)

C2_Witness ==
    /\ pc = "reconverted"
    /\ orig = ValueBytes(<<0, 143>>)
    /\ ty = NamedType(BYTES_SCALAR)
    /\ untyped = QueryString(<<"0", "x", "0", "0", "8", "f">>)
    /\ typed = Ok(orig)

\* t is the canonical decimal text of n: '-' exactly when n is negative, then
\* the digits of the magnitude, no leading zero except for "0" itself.
IsCanonicalDecimalOf(t, n) ==
    LET neg == n.sign = "Minus"
        ds == IF neg /\ t # <<>> THEN Tail(t) ELSE t
    IN  /\ t # <<>>
        /\ neg <=> Head(t) = "-"
        /\ ds # <<>>
        /\ \A i \in 1..Len(ds) : IsDecDigit(ds[i])
        /\ Len(ds) > 1 => ds[1] # "0"
        /\ IF n.sign = "NoSign" THEN ds = <<"0">>
           ELSE /\ Len(ds) = Len(n.mag)
                /\ \A i \in 1..Len(ds) : DecVal(ds[i]) = n.mag[i]

\* C3: a Value::BigInt(n) renders to the string literal of n's canonical
\* decimal text, and that literal converted back under the named type
\* "BigInt" is Value::BigInt(n) again.
C3_BigIntRoundTrip ==
    (pc \in {"untyped", "reconverted"} /\ orig.kind = "BigInt")
        => /\ untyped.shape = "String"
           /\ IsCanonicalDecimalOf(untyped.text, orig.num)
           /\ (pc = "reconverted" /\ ty = NamedType(BIG_INT_SCALAR))
                 => typed = Ok(orig)

C3_Witness ==
    /\ pc = "reconverted"
    /\ orig = ValueBigInt([sign |-> "Minus", mag |-> TestBigNumDigits])
    /\ ty = NamedType(BIG_INT_SCALAR)
    /\ untyped = QueryString(<<"-">> \o TestBigNumText)
    /\ typed = Ok(orig)

\* C4: an integer literal converts to Int(i) when i lies in the 32-bit signed
\* range and to the error IntOverflow when it does not; never to an Int that
\* holds a wrapped value.
C4_IntNarrowingChecked ==
    (pc = "converted" /\ orig.shape = "Int")
        => IF FitsI32(orig.limbs)
           THEN typed = Ok(ValueInt(I64AsI32(orig.limbs)))
           ELSE typed = Err("IntOverflow")

\* The pair of untyped shape and declared type has no row in the dispatch
\* table, at the top or at the first element of a list that does not convert.
RECURSIVE HasNoRow(_, _)
HasNoRow(q, t) ==
    \/ q.shape = "String" /\ t.ctor # "NamedType"
    \/ q.shape = "List" /\ t.ctor # "ListType"
    \/ /\ q.shape = "List"
       /\ t.ctor = "ListType"
       /\ \E i \in 1..Len(q.elems) :
            /\ HasNoRow(q.elems[i], t.of)
            /\ \A j \in 1..(i - 1) : FromQueryValue(q.elems[j], t.of).outcome = "Ok"

\* C5: a pair without a row in the dispatch table, nested in a list or not,
\* ends in the explicit error UnsupportedValueTypeCombination, not in an
\* abort and not in a Value.
C5_UnsupportedIsExplicitError ==
    (pc = "converted" /\ HasNoRow(orig, ty))
        => typed = Err("UnsupportedValueTypeCombination")

StripOnePrefix(s) ==
    IF StartsWith(s, HexPrefix) THEN SubSeq(s, Len(HexPrefix) + 1, Len(s)) ELSE s

IsEvenHex(s) ==
    /\ Len(s) % 2 = 0
    /\ \A i \in 1..Len(s) : HexVal(s[i]) >= 0

LowerHexDigit(c) ==
    IF \E i \in 1..16 : HexUpper[i] = c
    THEN HexLower[CHOOSE i \in 1..16 : HexUpper[i] = c]
    ELSE c

\* C7: a string literal of an optional "0x" and an even number of hex digits
\* of any case converts under "Bytes", and the result renders as "0x" followed
\* by the same digits in lowercase.
C7_CanonicalLowercase ==
    (/\ pc \in {"converted", "rendered"}
     /\ orig.shape = "String"
     /\ ty = NamedType(BYTES_SCALAR)
     /\ IsEvenHex(StripOnePrefix(orig.text)))
        => /\ typed.outcome = "Ok"
           /\ pc = "rendered" =>
                LET ds == StripOnePrefix(orig.text)
                IN  untyped = QueryString(
                        HexPrefix \o [i \in 1..Len(ds) |-> LowerHexDigit(ds[i])])

C7_Witness ==
    /\ pc = "rendered"
    /\ ty = NamedType(BYTES_SCALAR)
    /\ orig = QueryString(<<"0", "x", "a", "F", "F", "1">>)
    /\ untyped = QueryString(<<"0", "x", "a", "f", "f", "1">>)

\* C8: under "Bytes" at most one leading "0x" is removed and the whole rest
\* is decoded: the conversion yields a Value exactly when that rest is an
\* even number of hex digits, and then the bytes of that rest; so "0x0x12"
\* is rejected.
C8_AtMostOnePrefixStripped ==
    (pc = "converted" /\ orig.shape = "String" /\ ty = NamedType(BYTES_SCALAR))
        => LET rest == StripOnePrefix(orig.text)
           IN  IF IsEvenHex(rest)
               THEN typed = Ok(ValueBytes(HexDecode(rest).bytes))
               ELSE typed.outcome # "Ok"

----------------------------------------------------------------------------
(* Properties of Entity *)

\* C1: after self.merge(update) a key the update maps to Null is absent, a
\* key the update maps to another value holds that value, a key of self the
\* update does not have keeps its value, and there are no other keys.
C1_MergeReference ==
    pc = "merged" =>
        /\ \A k \in DOMAIN update :
              IF update[k].kind = "Null" THEN k \notin DOMAIN self
              ELSE k \in DOMAIN self /\ self[k] = update[k]
        /\ \A k \in DOMAIN self0 \ DOMAIN update :
              k \in DOMAIN self /\ self[k] = self0[k]
        /\ DOMAIN self \subseteq DOMAIN self0 \cup DOMAIN update

C1_Witness ==
    /\ pc = "merged"
    /\ self0 = (<<"a">> :> ValueInt(1)) @@ (<<"a", "b">> :> ValueString(<<"x">>))
    /\ update = (<<"a", "b">> :> ValueNull) @@ (<<"Z">> :> ValueBool(TRUE))
    /\ self = (<<"a">> :> ValueInt(1)) @@ (<<"Z">> :> ValueBool(TRUE))

\* C6: the object has the entity's attribute names as keys, each once, each
\* with the rendering of its value, in strictly ascending byte order of the
\* names; so the output is a function of the contents alone.
C6_OrderedObject ==
    pc = "object" =>
        /\ object.shape = "Object"
        /\ LET fs == object.fields
           IN  /\ {fs[i].key : i \in 1..Len(fs)} = DOMAIN self
               /\ Len(fs) = Cardinality(DOMAIN self)
               /\ \A i \in 1..Len(fs) : fs[i].entry = ToQueryValue(self[fs[i].key])
               /\ \A i \in 1..Len(fs) : \A j \in 1..Len(fs) :
                     i < j => StrLess(fs[i].key, fs[j].key)

C6_Witness ==
    /\ pc = "object"
    /\ self0 # self
    /\ DOMAIN self = Keys
    /\ self[<<"a">>] = ValueInt(1)
    /\ object.fields[1].key = <<"Z">>
    /\ object.fields[2] = [key |-> <<"a">>, entry |-> QueryInt(<<0, 0, 0, 1>>)]
    /\ object.fields[3].key = <<"a", "b">>

\* The last update of the chain that has the key k, 0 when none has.
LastWriter(k) ==
    LET idx == {i \in 1..Len(history) : k \in DOMAIN history[i]}
    IN  IF idx = {} THEN 0 ELSE CHOOSE i \in idx : \A j \in idx : j <= i

\* C9: after the updates u1..un are merged in that order, each key is as the
\* last update that has it says (absent for Null, else that update's value),
\* and a key no update has is as in the base.
C9_LastUpdateWins ==
    pc = "chain" =>
        \A k \in ChainKeys :
            LET w == LastWriter(k)
            IN  IF w = 0
                THEN /\ k \in DOMAIN self <=> k \in DOMAIN base
                     /\ k \in DOMAIN base => self[k] = base[k]
                ELSE IF history[w][k].kind = "Null" THEN k \notin DOMAIN self
                ELSE k \in DOMAIN self /\ self[k] = history[w][k]

\* Two entities for which the order of the merge matters: a.merge(b) has
\* happened and b.merge(a) would give another entity.
C9_Witness ==
    /\ pc = "chain"
    /\ Len(history) = 1
    /\ base = (<<"a">> :> ValueInt(1))
    /\ history[1] = (<<"a">> :> ValueInt(2))
    /\ self = (<<"a">> :> ValueInt(2))
    /\ \A order \in Orders(DOMAIN base) :
          MergeInOrder(history[1], base, order) = (<<"a">> :> ValueInt(1))

NoNullAttribute(e) == \A k \in DOMAIN e : e[k].kind # "Null"

\* C10: an entity without a Null attribute has none after any chain of
\* merges; a List that holds a Null is stored as it is.
C10_NullNeverStored ==
    (pc = "chain" /\ NoNullAttribute(base)) =>
        /\ NoNullAttribute(self)
        /\ Len(history) > 0 =>
              LET last == history[Len(history)]
              IN  \A k \in DOMAIN last :
                     last[k] = ValueList(<<ValueNull>>)
                        => k \in DOMAIN self /\ self[k] = last[k]

C10_Witness ==
    /\ pc = "chain"
    /\ base = EntityNew
    /\ Len(history) = 2
    /\ history[1] = (<<"a">> :> ValueInt(1)) @@ (<<"b">> :> ValueNull)
    /\ history[2] = (<<"a">> :> ValueNull) @@ (<<"b">> :> ValueList(<<ValueNull>>))
    /\ self = (<<"b">> :> ValueList(<<ValueNull>>))

====
